---------------------------- MODULE Spec2Model ----------------------------
(***************************************************************************)
(* Linear-referencing and polyline geometry of the dxf2 scripts            *)
(* (rail_power.py, rail_power_draw.py, mileage_connect.py,                 *)
(* demolition_polyline_info.py, extract_closed_polyline_text.py).          *)
(*                                                                         *)
(* Numbers.  The scripts compute with Python floats.  Here a length or a   *)
(* coordinate is an integer count of 1/SCALE drawing units, products of    *)
(* two lengths count 1/SCALE^2 units, and a dimensionless parameter        *)
(* (proj, ratio, t = k/steps) is kept as the fraction the code divides,    *)
(* the division being carried out, rounded to the nearest count, when the  *)
(* code multiplies a vector by it.  Polylines are rectilinear with         *)
(* vertices on whole drawing units, so that every square root the code     *)
(* takes of a segment is exact; the square root of a point-to-curve        *)
(* distance is rounded down to a count, which keeps the order of the       *)
(* distances of the bounded inputs.                                        *)
(***************************************************************************)
EXTENDS Integers, Sequences, FiniteSets, TLC

VARIABLES
    pc,        \* position of the script under analysis
    points,    \* densify: the input polyline (Seq of Vec2)
    max_len,   \* densify: the length bound
    dense,     \* densify: the value returned
    vecs,      \* a reference polyline (Seq of Vec2)
    cum,       \* its arc-length table, calc_cum_len(vecs)
    offset,    \* its mileage offset
    query,     \* the point projected onto vecs
    info,      \* closest_point_info(vecs, cum, query, offset)
    mileage,   \* calc_mileage(vecs, cum, query, offset)
    cm,        \* closest_mileage(vecs, cum, query, offset)
    target,    \* the target_len passed to get_point_and_tangent
    located,   \* get_point_and_tangent(vecs, cum, target)
    relocated, \* get_point_and_tangent at the arc length of located's projection
    t_rail,    \* segment_direction(vecs, query)
    theta,     \* angle_right: theta of line 105, in 1/ANGLE_UNIT degrees
    angle_str, \* angle_right: the string returned, as a sequence of characters
    poly,      \* polygon_area_centroid: the vertex list pts
    area,      \* polygon_area_centroid: the area returned, in 1/SCALE^2 units
    centroid,  \* polygon_area_centroid: the Vec2 returned
    script,    \* the batch script that runs: "mileage_connect" or "rail_power_draw"
    rail_data, \* main: (dense_pts, cum_len, offset) of the layers found, in RAIL_LAYERS order
    table,     \* main: the rows (M, ang_str) the loop has taken from its table so far
    msp,       \* main: the lines added to the model space, each with the row it was added for
    log,       \* main: the messages printed by the loop, each with the row it was printed for
    items,     \* main: the polygons or texts the outer loop has taken so far
    routed,    \* main: the locals of the last pass that ran the loop over rail_data
    rows,      \* main: the rows appended, each with the item it was appended for
    polygons   \* extract_closed_polyline_text.main: the closed polylines of load_room

densifyVars == <<points, max_len, dense>>
curveVars ==
    <<vecs, cum, offset, query, info, mileage, cm, target, located, relocated, t_rail>>
angleVars == <<theta, angle_str>>
polygonVars == <<poly, area, centroid>>
routeVars == <<script, rail_data, table, msp, log>>
pointVars == <<items, routed, rows, polygons>>
vars == <<pc, densifyVars, curveVars, angleVars, polygonVars, routeVars, pointVars>>

\* the variables a specification of one part leaves alone
exceptDensify == <<curveVars, angleVars, polygonVars, routeVars, pointVars>>
exceptCurve == <<densifyVars, angleVars, polygonVars, routeVars, pointVars>>
exceptAngle == <<densifyVars, curveVars, polygonVars, routeVars, pointVars>>
exceptPolygon == <<densifyVars, curveVars, angleVars, routeVars, pointVars>>
exceptRoute == <<densifyVars, curveVars, angleVars, polygonVars, pointVars>>
exceptPoint == <<densifyVars, curveVars, angleVars, polygonVars, table, msp, log>>

-----------------------------------------------------------------------------
(* Bounds of the model *)

\* vertices of a polyline passed to densify
MaxDensifyVerts == 3
\* largest x of a densify input, in drawing units
DensifyGridX == 7
\* largest y of a densify input, in drawing units
DensifyGridY == 1
\* largest max_len tried besides MAX_SEG_LEN, in drawing units
MaxLenTried == 2
\* vertices of a reference curve that points are projected onto
MaxProjectVerts == 4
\* largest x of such a curve's vertex, in drawing units
ProjectGridX == 2
\* largest y of such a curve's vertex, in drawing units
ProjectGridY == 1
\* vertices of a reference curve that stations are located on
MaxLocateVerts == 3
\* largest x of such a curve's vertex, in drawing units
LocateGridX == 2
\* largest y of such a curve's vertex, in drawing units
LocateGridY == 1
\* vertices of a demolition polygon, and the lattice they lie on
MaxPolygonVerts == 4
PolygonGridX == 2
PolygonGridY == 1
\* rail layers of the batch loops, drawing units between the offsets of two
\* consecutive layers, and rows of the table
MaxLayers == 2
LayerSpacing == 2
MaxRows == 2
\* polygons or texts of the per-point loops, and the width of the lattice of
\* their points
MaxItems == 1
PointGridX == 1

-----------------------------------------------------------------------------
(* Numbers *)

\* counts per drawing unit
SCALE == 12

\* MAX_SEG_LEN = 5.0
MAX_SEG_LEN == 5 * SCALE

\* TOLERANCE = 1e-6 as the fraction TOLERANCE_NUM / TOLERANCE_DEN
TOLERANCE_NUM == 1
TOLERANCE_DEN == 1000000

Abs(n) == IF n < 0 THEN -n ELSE n

\* n / d rounded to the nearest integer (d > 0)
RDiv(n, d) == (2 * n + d) \div (2 * d)

\* n / d rounded to the nearest integer (d # 0)
SDiv(n, d) == IF d < 0 THEN RDiv(-n, -d) ELSE RDiv(n, d)

\* the largest r with r * r <= n
ISqrt(n) == CHOOSE r \in 0..n : r * r <= n /\ n < (r + 1) * (r + 1)

\* x < n / d and x > n / d for an integer x (n >= 0, d > 0)
LtFrac(x, n, d) == x < (n + d - 1) \div d
GtFrac(x, n, d) == x > n \div d

\* x < TOLERANCE for a length x: x / SCALE < NUM / DEN
LtTol(x) == LtFrac(x, TOLERANCE_NUM * SCALE, TOLERANCE_DEN)

\* x > TOLERANCE for a length x
GtTol(x) == GtFrac(x, TOLERANCE_NUM * SCALE, TOLERANCE_DEN)

\* x < TOLERANCE for a product x of two lengths: x / SCALE^2 < NUM / DEN
LtTolSq(x) == LtFrac(x, TOLERANCE_NUM * SCALE * SCALE, TOLERANCE_DEN)

-----------------------------------------------------------------------------
(* ezdxf.math.Vec2 *)

Vec2(x, y) == [x |-> x, y |-> y]

VAdd(a, b) == Vec2(a.x + b.x, a.y + b.y)

VSub(a, b) == Vec2(a.x - b.x, a.y - b.y)

\* v * (n / d)
VMulFrac(v, n, d) == Vec2(RDiv(v.x * n, d), RDiv(v.y * n, d))

Dot(a, b) == a.x * b.x + a.y * b.y

\* sqrt(x * x + y * y); an axis-parallel vector needs no search
Magnitude(v) ==
    IF v.y = 0 THEN Abs(v.x)
    ELSE IF v.x = 0 THEN Abs(v.y)
    ELSE ISqrt(v.x * v.x + v.y * v.y)

Distance(a, b) == Magnitude(VSub(b, a))

-----------------------------------------------------------------------------
(* densify, rail_power.py (the same text in demolition_polyline_info.py    *)
(* and extract_closed_polyline_text.py)                                    *)

\* the points appended for the segment a -> b: a, then the interior points
\* a + (b - a) * (k / steps) for k in range(1, steps)
densify_segment(a, b, maxlen) ==
    LET dist == Distance(a, b)
        steps == dist \div maxlen
    IN  IF dist > maxlen
        THEN <<a>> \o [k \in 1..(steps - 1) |-> VAdd(a, VMulFrac(VSub(b, a), k, steps))]
        ELSE <<a>>

RECURSIVE densify_loop(_, _, _)
densify_loop(pts, maxlen, i) ==
    IF i > Len(pts) - 1
    THEN <<>>
    ELSE densify_segment(pts[i], pts[i + 1], maxlen) \o densify_loop(pts, maxlen, i + 1)

\* points[-1] of an empty list raises IndexError
densify(pts, maxlen) ==
    IF Len(pts) = 0
    THEN "IndexError"
    ELSE densify_loop(pts, maxlen, 1) \o <<pts[Len(pts)]>>

\* the interior points of rail_power.densify put in place of those of
\* mileage_connect.densify: k / steps for k in range(1, steps)
densify_connect_segment_steps(a, b, maxlen) ==
    LET dist == Distance(a, b)
        steps == dist \div maxlen
    IN  IF dist > maxlen
        THEN <<a>> \o [k \in 1..(steps - 1) |-> VAdd(a, VMulFrac(VSub(b, a), k, steps))]
        ELSE <<a>>

\* densify of mileage_connect.py and rail_power_draw.py: the interior points
\* are a + (b - a) * (k / (steps + 1)) for k in range(1, steps + 1)
densify_connect_segment(a, b, maxlen) ==
    LET dist == Distance(a, b)
        steps == dist \div maxlen
    IN  IF dist > maxlen
        THEN <<a>> \o [k \in 1..steps |-> VAdd(a, VMulFrac(VSub(b, a), k, steps + 1))]
        ELSE <<a>>

RECURSIVE densify_connect_loop(_, _, _)
densify_connect_loop(pts, maxlen, i) ==
    IF i > Len(pts) - 1
    THEN <<>>
    ELSE densify_connect_segment(pts[i], pts[i + 1], maxlen)
         \o densify_connect_loop(pts, maxlen, i + 1)

densify_connect(pts, maxlen) ==
    IF Len(pts) = 0
    THEN "IndexError"
    ELSE densify_connect_loop(pts, maxlen, 1) \o <<pts[Len(pts)]>>

-----------------------------------------------------------------------------
(* calc_cum_len, rail_power.py (the same text in the other four scripts)   *)

RECURSIVE cum_loop(_, _, _)
\* for i in range(len(vecs) - 1): cum.append(cum[-1] + vecs[i].distance(vecs[i+1]))
cum_loop(v, acc, i) ==
    IF i > Len(v) - 1
    THEN acc
    ELSE cum_loop(v, Append(acc, acc[Len(acc)] + Distance(v[i], v[i + 1])), i + 1)

\* mutant: each entry is its segment's length, the running sum forgotten
calc_cum_len_no_sum(v) ==
    [i \in 1..Len(v) |-> IF i = 1 THEN 0 ELSE Distance(v[i - 1], v[i])]

calc_cum_len(v) == cum_loop(v, <<0>>, 1)

-----------------------------------------------------------------------------
(* The point projectors                                                    *)

\* float('inf'): above every number of the model
Inf == 2147483647

\* None where the code expects a number: apart from every number of the model
None == -2147483647

\* None where the code expects a Vec2
NoneVec == [x |-> None, y |-> None]

\* float('nan'): every comparison with it is false, every sum with it is nan
NaN == 2147483646

FLe(a, b) == a # NaN /\ b # NaN /\ a <= b
FGe(a, b) == a # NaN /\ b # NaN /\ a >= b
FSub(a, b) == IF a = NaN \/ b = NaN THEN NaN ELSE a - b

\* mutant: a later segment at the same distance replaces the earlier one
LeBest(dist, best_dist) == dist <= best_dist

\* dist < best_dist
LtBest(dist, best_dist) == dist < best_dist

\* v.normalize(): the unit vector, its components counted in 1/SCALE
Normalize(v) == VMulFrac(v, SCALE, Magnitude(v))

\* Vec2(1, 0)
UnitX == Vec2(SCALE, 0)

\* proj_pt of closest_point_info: a + ab * min(1.0, max(0.0, proj)), with
\* proj = (point - a).dot(ab) / (ab.magnitude ** 2)
proj_pt_clamped(a, ab, point) ==
    LET num == Dot(VSub(point, a), ab)
        den == Magnitude(ab) * Magnitude(ab)
    IN  IF num < 0 THEN VAdd(a, VMulFrac(ab, 0, 1))
        ELSE IF num > den THEN VAdd(a, VMulFrac(ab, 1, 1))
        ELSE VAdd(a, VMulFrac(ab, num, den))

\* proj_pt of calc_mileage and closest_mileage: a if proj < 0, b if proj > 1,
\* a + ab * proj otherwise
proj_pt_branches(a, b, ab, point) ==
    LET num == Dot(VSub(point, a), ab)
        den == Magnitude(ab) * Magnitude(ab)
    IN  IF num < 0 THEN a
        ELSE IF num > den THEN b
        ELSE VAdd(a, VMulFrac(ab, num, den))

RECURSIVE closest_point_info_loop(_, _, _, _, _)
\* the loop of closest_point_info from segment i on; best is
\* (best_len, best_dist, best_dir, best_proj)
closest_point_info_loop(v, c, point, i, best) ==
    IF i > Len(v) - 1
    THEN best
    ELSE LET a == v[i]
             b == v[i + 1]
             ab == VSub(b, a)
             proj_pt == proj_pt_clamped(a, ab, point)
             dist == Distance(point, proj_pt)
         IN  IF LtTol(Magnitude(ab))
             THEN closest_point_info_loop(v, c, point, i + 1, best)
             ELSE IF LtBest(dist, best.dist)
             THEN closest_point_info_loop(v, c, point, i + 1,
                      [len |-> c[i] + Magnitude(VSub(proj_pt, a)), dist |-> dist,
                       dir |-> Normalize(ab), proj |-> proj_pt])
             ELSE closest_point_info_loop(v, c, point, i + 1, best)

\* demolition_polyline_info.py: (mileage, distance, direction, projected
\* point), or (None, None, None, None)
closest_point_info(v, c, point, off) ==
    LET best == closest_point_info_loop(v, c, point, 1,
                    [len |-> None, dist |-> Inf, dir |-> NoneVec, proj |-> NoneVec])
    IN  IF best.len = None
        THEN [len |-> None, dist |-> None, dir |-> NoneVec, proj |-> NoneVec]
        ELSE [len |-> best.len + off, dist |-> best.dist, dir |-> best.dir,
              proj |-> best.proj]

RECURSIVE closest_mileage_loop(_, _, _, _, _)
\* the loop shared by calc_mileage and closest_mileage from segment i on;
\* best is (best_len, best_dist)
closest_mileage_loop(v, c, point, i, best) ==
    IF i > Len(v) - 1
    THEN best
    ELSE LET a == v[i]
             b == v[i + 1]
             ab == VSub(b, a)
             proj_pt == proj_pt_branches(a, b, ab, point)
             dist == Distance(point, proj_pt)
         IN  IF LtTol(Magnitude(ab))
             THEN closest_mileage_loop(v, c, point, i + 1, best)
             ELSE IF LtBest(dist, best.dist)
             THEN closest_mileage_loop(v, c, point, i + 1,
                      [len |-> c[i] + Magnitude(VSub(proj_pt, a)), dist |-> dist])
             ELSE closest_mileage_loop(v, c, point, i + 1, best)

\* extract_closed_polyline_text.py: (mileage, distance) or (None, None)
closest_mileage(v, c, point, off) ==
    LET best == closest_mileage_loop(v, c, point, 1, [len |-> None, dist |-> Inf])
    IN  IF best.len = None
        THEN [len |-> None, dist |-> None]
        ELSE [len |-> best.len + off, dist |-> best.dist]

\* rail_power.py: the mileage, or None
calc_mileage(v, c, point, off) ==
    LET best == closest_mileage_loop(v, c, point, 1, [len |-> None, dist |-> Inf])
    IN  IF best.len = None THEN None ELSE best.len + off

-----------------------------------------------------------------------------
(* get_point_and_tangent, mileage_connect.py (the same text in             *)
(* rail_power_draw.py)                                                     *)

\* t.normalize() if t.magnitude > TOLERANCE else Vec2(1, 0)
unit_or_default(t) == IF GtTol(Magnitude(t)) THEN Normalize(t) ELSE UnitX

\* mutant: the ratio taken from the start of the curve, not of the segment
interpolate_from_zero(a, b, c_i, seg_len, target_len) ==
    VAdd(a, VMulFrac(VSub(b, a), target_len, seg_len))

\* ratio = (target_len - cum[i]) / seg_len; pt = a + (b - a) * ratio
interpolate(a, b, c_i, seg_len, target_len) ==
    VAdd(a, VMulFrac(VSub(b, a), target_len - c_i, seg_len))

RECURSIVE bracket_loop(_, _, _, _)
\* the for loop of get_point_and_tangent from index i on
bracket_loop(v, c, target_len, i) ==
    IF i > Len(c) - 1
    THEN [pt |-> v[Len(v)], t |-> UnitX]
    ELSE IF FLe(c[i], target_len) /\ FLe(target_len, c[i + 1])
    THEN LET a == v[i]
             b == v[i + 1]
             seg_len == c[i + 1] - c[i]
         IN  IF LtTol(seg_len)
             THEN [pt |-> a, t |-> unit_or_default(VSub(b, a))]
             ELSE [pt |-> interpolate(a, b, c[i], seg_len, target_len),
                   t |-> unit_or_default(VSub(b, a))]
    ELSE bracket_loop(v, c, target_len, i + 1)

get_point_and_tangent(v, c, target_len) ==
    IF FLe(target_len, 0)
    THEN [pt |-> v[1],
          t |-> unit_or_default(IF Len(v) >= 2 THEN VSub(v[2], v[1]) ELSE UnitX)]
    ELSE IF FGe(target_len, c[Len(c)])
    THEN [pt |-> v[Len(v)],
          t |-> unit_or_default(IF Len(v) >= 2 THEN VSub(v[Len(v)], v[Len(v) - 1])
                                ELSE UnitX)]
    ELSE bracket_loop(v, c, target_len, 1)

-----------------------------------------------------------------------------
(* segment_direction, rail_power.py *)

\* a float division by zero raises ZeroDivisionError, which leaves the function
ZeroDivisionError == Vec2(NaN, NaN)

\* the loop of lines 50-56 from the i-th segment on: the direction returned,
\* ZeroDivisionError, or NoneVec when the loop ends without returning
RECURSIVE segment_loop(_, _, _)
segment_loop(v, point, i) ==
    IF i > Len(v) - 1 THEN NoneVec
    ELSE LET a == v[i]
             b == v[i + 1]
             cross == (a.x - point.x) * (b.y - point.y)
                      - (a.y - point.y) * (b.x - point.x)
             ab == VSub(b, a)
             num == Dot(VSub(point, a), ab)
             den == Magnitude(ab) * Magnitude(ab)
         IN  IF LtTolSq(Abs(cross))
             THEN IF den = 0 THEN ZeroDivisionError
                  ELSE IF 0 <= num /\ num <= den /\ GtTol(Magnitude(ab))
                  THEN Normalize(ab)
                  ELSE segment_loop(v, point, i + 1)
             ELSE segment_loop(v, point, i + 1)

\* min(range(len(vecs)), key=...): the first of the vertices nearest to point
nearest_vertex(v, point) ==
    CHOOSE j \in 1..Len(v) :
        /\ \A k \in 1..Len(v) : Distance(point, v[j]) <= Distance(point, v[k])
        /\ \A k \in 1..(j - 1) : Distance(point, v[k]) > Distance(point, v[j])

\* lines 58-63; vecs[idx - 1] of a single vertex is that vertex
segment_fallback(v, point) ==
    LET idx == nearest_vertex(v, point)
        d == IF idx < Len(v) THEN VSub(v[idx + 1], v[idx])
             ELSE IF idx > 1 THEN VSub(v[idx], v[idx - 1])
             ELSE VSub(v[idx], v[Len(v)])
    IN  IF GtTol(Magnitude(d)) THEN Normalize(d) ELSE UnitX

segment_direction(v, point) ==
    IF segment_loop(v, point, 1) # NoneVec
    THEN segment_loop(v, point, 1)
    ELSE segment_fallback(v, point)

-----------------------------------------------------------------------------
(* angle_right, rail_power.py *)

\* an angle is an integer count of 1/ANGLE_UNIT degrees
ANGLE_UNIT == 1000

\* theta = math.degrees(-math.atan2(det, dot)) of two tangents: atan2 ranges
\* over [-pi, pi], both ends included (pi for det = 0.0 and dot < 0, -pi for
\* det = -0.0 and dot < 0)
ThetaValues == (-180 * ANGLE_UNIT)..(180 * ANGLE_UNIT)

\* round(x) of the float x = n / d >= 0; a float next to a half-way value
\* falls on either side of it
round(n, d) ==
    LET q == n \div d
        r == n % d
    IN  IF 2 * r < d THEN {q}
        ELSE IF 2 * r > d THEN {q + 1}
        ELSE {q, q + 1}

DigitChars == <<"0", "1", "2", "3", "4", "5", "6", "7", "8", "9">>

\* str(n) of an integer n >= 0
RECURSIVE IntToStr(_)
IntToStr(n) ==
    IF n < 10 THEN <<DigitChars[n + 1]>>
    ELSE Append(IntToStr(n \div 10), DigitChars[(n % 10) + 1])

\* f"{deg}°{mins}'"
FormatAngle(deg, mins) == IntToStr(deg) \o <<"°">> \o IntToStr(mins) \o <<"'">>

\* lines 109-111 without the carry
carry_none(deg, mins) == FormatAngle(deg, mins)

\* if mins == 60: deg += 1; mins = 0
carry(deg, mins) ==
    IF mins = 60 THEN FormatAngle(deg + 1, 0) ELSE FormatAngle(deg, mins)

\* lines 106-112: the strings angle_right can return for theta
angle_right(th) ==
    LET ang == IF th >= 0 THEN Abs(th) ELSE 180 * ANGLE_UNIT - Abs(th)
        deg == ang \div ANGLE_UNIT
    IN  {carry(deg, mins) : mins \in round((ang - deg * ANGLE_UNIT) * 60, ANGLE_UNIT)}

-----------------------------------------------------------------------------
(* parse_angle, rail_power_draw.py.  A text is a sequence of characters; an *)
(* angle is a count of 1/ANGLE_UNIT degrees.                                *)

\* int(s) of a string of decimal digits
RECURSIVE StrToInt(_)
StrToInt(str) ==
    IF str = <<>> THEN 0
    ELSE 10 * StrToInt(SubSeq(str, 1, Len(str) - 1))
         + (CHOOSE k \in 0..9 : DigitChars[k + 1] = str[Len(str)])

RECURSIVE lstrip(_)
lstrip(str) == IF str # <<>> /\ str[1] = " " THEN lstrip(Tail(str)) ELSE str

RECURSIVE rstrip(_)
rstrip(str) ==
    IF str # <<>> /\ str[Len(str)] = " "
    THEN rstrip(SubSeq(str, 1, Len(str) - 1))
    ELSE str

strip(str) == rstrip(lstrip(str))

\* str.isdigit(), and the \d+ of pattern1
isdigit(str) ==
    str # <<>> /\ \A i \in 1..Len(str) : \E k \in 1..10 : DigitChars[k] = str[i]

\* the index of the first occurrence of ch in str, 0 if there is none
find(str, ch) ==
    IF \E i \in 1..Len(str) : str[i] = ch
    THEN CHOOSE i \in 1..Len(str) : str[i] = ch /\ \A j \in 1..(i - 1) : str[j] # ch
    ELSE 0

\* pattern1 = ^\s*(\d+)\s*°\s*(\d+)\s*'\s*$ : the two groups, or <<>> for no match
pattern1(str) ==
    LET i == find(str, "°")
        left == strip(SubSeq(str, 1, i - 1))
        rest == strip(SubSeq(str, i + 1, Len(str)))
        right == strip(SubSeq(rest, 1, Len(rest) - 1))
    IN  IF /\ i > 0
           /\ isdigit(left)
           /\ rest # <<>>
           /\ rest[Len(rest)] = "'"
           /\ isdigit(right)
        THEN <<left, right>>
        ELSE <<>>

Pow10(n) == IF n = 0 THEN 1 ELSE IF n = 1 THEN 10 ELSE IF n = 2 THEN 100 ELSE 1000

\* float(s) of a stripped text made of digits, ".", letters and signs of the
\* angle notation: a decimal number, "nan", or None for ValueError
float(str) ==
    LET i == find(str, ".")
        whole == SubSeq(str, 1, i - 1)
        frac == SubSeq(str, i + 1, Len(str))
    IN  IF str = <<"n", "a", "n">> THEN NaN
        ELSE IF isdigit(str) THEN StrToInt(str) * ANGLE_UNIT
        ELSE IF /\ i > 0
                /\ whole = <<>> \/ isdigit(whole)
                /\ frac = <<>> \/ isdigit(frac)
                /\ whole # <<>> \/ frac # <<>>
                /\ Len(frac) <= 3
        THEN StrToInt(whole) * ANGLE_UNIT
             + RDiv(StrToInt(frac) * ANGLE_UNIT, Pow10(Len(frac)))
        ELSE None

\* deg + minute / 60.0
deg_min(deg, minute) == deg * ANGLE_UNIT + RDiv(minute * ANGLE_UNIT, 60)

\* the angle parsed, or None when parse_angle raises ValueError
parse_angle(text) ==
    LET s == strip(text)
        m1 == pattern1(s)
    IN  IF m1 # <<>>
        THEN deg_min(StrToInt(m1[1]), StrToInt(m1[2]))
        ELSE IF isdigit(s) /\ 3 <= Len(s) /\ Len(s) <= 4
        THEN deg_min(StrToInt(SubSeq(s, 1, Len(s) - 2)),
                     StrToInt(SubSeq(s, Len(s) - 1, Len(s))))
        ELSE float(s)

-----------------------------------------------------------------------------
(* polygon_area_centroid, demolition_polyline_info.py *)

\* if pts[0] != pts[-1]: pts = pts + [pts[0]]
close_ring(pts) == IF pts[1] # pts[Len(pts)] THEN Append(pts, pts[1]) ELSE pts

\* cross = x0 * y1 - x1 * y0 of the edge from pts[i]
edge_cross(pts, i) == pts[i].x * pts[i + 1].y - pts[i + 1].x * pts[i].y

\* the loop of lines 100-106: area2, cx and cy summed over the edges i..
RECURSIVE shoelace_loop(_, _, _)
shoelace_loop(pts, i, acc) ==
    IF i > Len(pts) - 1 THEN acc
    ELSE LET cross == edge_cross(pts, i)
         IN  shoelace_loop(pts, i + 1,
                 [area2 |-> acc.area2 + cross,
                  cx |-> acc.cx + (pts[i].x + pts[i + 1].x) * cross,
                  cy |-> acc.cy + (pts[i].y + pts[i + 1].y) * cross])

\* sum(p[0] for p in pts) and sum(p[1] for p in pts)
RECURSIVE sum_points(_)
sum_points(pts) ==
    IF pts = <<>> THEN Vec2(0, 0) ELSE VAdd(pts[1], sum_points(Tail(pts)))

\* the mean taken over pts, the closing vertex included
mean_of_closed(pts) ==
    LET sum == sum_points(pts)
    IN  Vec2(RDiv(sum.x, Len(pts)), RDiv(sum.y, Len(pts)))

\* lines 108-109: the mean over pts[:-1], divided by len(pts) - 1
mean_of_ring(pts) ==
    LET sum == sum_points(SubSeq(pts, 1, Len(pts) - 1))
    IN  Vec2(RDiv(sum.x, Len(pts) - 1), RDiv(sum.y, Len(pts) - 1))

\* the area returned with the sign of area2, left out of abs()
polygon_area_centroid_signed(pts0) ==
    LET pts == close_ring(pts0)
        acc == shoelace_loop(pts, 1, [area2 |-> 0, cx |-> 0, cy |-> 0])
    IN  IF LtTolSq(Abs(acc.area2))
        THEN [area |-> 0, centroid |-> mean_of_ring(pts)]
        ELSE [area |-> SDiv(acc.area2, 2),
              centroid |-> Vec2(SDiv(acc.cx, 3 * acc.area2),
                                SDiv(acc.cy, 3 * acc.area2))]

polygon_area_centroid(pts0) ==
    LET pts == close_ring(pts0)
        acc == shoelace_loop(pts, 1, [area2 |-> 0, cx |-> 0, cy |-> 0])
    IN  IF LtTolSq(Abs(acc.area2))
        THEN [area |-> 0, centroid |-> mean_of_ring(pts)]
        ELSE [area |-> Abs(acc.area2) \div 2,
              centroid |-> Vec2(SDiv(acc.cx, 3 * acc.area2),
                                SDiv(acc.cy, 3 * acc.area2))]

-----------------------------------------------------------------------------
(* The batch loops of mileage_connect.main and rail_power_draw.main *)

\* local_len < -TOLERANCE or local_len > total_len + TOLERANCE
out_of_range(local_len, total_len) ==
    /\ local_len # NaN
    /\ GtTol(-local_len) \/ GtTol(local_len - total_len)

\* for layer_name, (dense_pts, cum_len, offset) in rail_data.items(), from the
\* k-th curve on: the curve the loop breaks at, 0 if it runs to the end
RECURSIVE route_loop(_, _, _)
route_loop(data, M, k) ==
    IF k > Len(data) THEN 0
    ELSE IF out_of_range(FSub(M, data[k].offset), data[k].cum[Len(data[k].cum)])
    THEN route_loop(data, M, k + 1)
    ELSE k

\* pt, t_rail = get_point_and_tangent(dense_pts, cum_len, local_len)
locate_on(curve, M) ==
    get_point_and_tangent(curve.pts, curve.cum, FSub(M, curve.offset))

-----------------------------------------------------------------------------
(* The per-point loops of demolition_polyline_info.main and                 *)
(* extract_closed_polyline_text.main                                        *)

\* "None < float" raises TypeError, which leaves main
TypeError == -2147483646

\* the test with <= in place of <
route_closer_or_equal(res_mileage, dist, best_dist) ==
    res_mileage # None /\ dist <= best_dist

\* if mileage is not None and dist < best_dist
route_closer(res_mileage, dist, best_dist) ==
    res_mileage # None /\ dist < best_dist

\* demolition_polyline_info.main, lines 166-172: the loop over rail_data from
\* the k-th curve on; acc holds best_mileage, best_dist, best_dir, proj_pt
RECURSIVE demolition_route_loop(_, _, _, _)
demolition_route_loop(data, point, k, acc) ==
    IF k > Len(data) THEN acc
    ELSE LET res == closest_point_info(data[k].pts, data[k].cum, point, data[k].offset)
         IN  IF route_closer(res.len, res.dist, acc.best_dist)
             THEN demolition_route_loop(data, point, k + 1,
                      [best_mileage |-> res.len, best_dist |-> res.dist,
                       best_dir |-> res.dir, proj_pt |-> res.proj])
             ELSE demolition_route_loop(data, point, k + 1, acc)

\* extract_closed_polyline_text.main, lines 147-151
RECURSIVE extract_route_loop(_, _, _, _)
extract_route_loop(data, point, k, acc) ==
    IF k > Len(data) THEN acc
    ELSE LET res == closest_mileage(data[k].pts, data[k].cum, point, data[k].offset)
         IN  IF route_closer(res.len, res.dist, acc.best_dist)
             THEN extract_route_loop(data, point, k + 1,
                      [best_mileage |-> res.len, best_dist |-> res.dist])
             ELSE extract_route_loop(data, point, k + 1, acc)

\* distance_to_rail: "if dist < best" with dist = None raises TypeError
RECURSIVE distance_to_rail_loop(_, _, _, _)
distance_to_rail_loop(point, data, k, acc) ==
    IF k > Len(data) THEN acc
    ELSE LET dist == closest_point_info(data[k].pts, data[k].cum, point,
                                        data[k].offset).dist
         IN  IF dist = None THEN TypeError
             ELSE IF dist < acc THEN distance_to_rail_loop(point, data, k + 1, dist)
             ELSE distance_to_rail_loop(point, data, k + 1, acc)

distance_to_rail(point, data) == distance_to_rail_loop(point, data, 1, Inf)

\* lines 173-178: the loop over the vertices of poly from the i-th on
RECURSIVE min_vertex_loop(_, _, _, _)
min_vertex_loop(pts, data, i, min_vertex_dist) ==
    IF i > Len(pts) THEN min_vertex_dist
    ELSE LET dist == distance_to_rail(pts[i], data)
         IN  IF dist = TypeError THEN TypeError
             ELSE IF dist < min_vertex_dist THEN min_vertex_loop(pts, data, i + 1, dist)
             ELSE min_vertex_loop(pts, data, i + 1, min_vertex_dist)

\* the on-line test taken on cross in place of abs(cross)
side_of_signed(acc, point) ==
    IF acc.best_dir # NoneVec /\ acc.proj_pt # NoneVec /\ acc.best_mileage # None
    THEN LET vec == VSub(point, acc.proj_pt)
             cross == acc.best_dir.x * vec.y - acc.best_dir.y * vec.x
         IN  IF LtTolSq(cross) THEN "on line"
             ELSE IF cross > 0 THEN "left"
             ELSE "right"
    ELSE "None"

\* lines 179-188; "on line", "left" and "right" stand for the three labels
\* written in Chinese
side_of(acc, point) ==
    IF acc.best_dir # NoneVec /\ acc.proj_pt # NoneVec /\ acc.best_mileage # None
    THEN LET vec == VSub(point, acc.proj_pt)
             cross == acc.best_dir.x * vec.y - acc.best_dir.y * vec.x
         IN  IF LtTolSq(Abs(cross)) THEN "on line"
             ELSE IF cross > 0 THEN "left"
             ELSE "right"
    ELSE "None"

\* round(x, 3) of x >= 0 counted in 1/unit: the result counts thousandths
round3(x, unit) == RDiv(x * 1000, unit)

\* one edge of point_in_polygon: y2 - y1 is a whole number of counts and
\* TOLERANCE a fraction of a count, so (x2 - x1) * (y - y1) / (y2 - y1 +
\* TOLERANCE) + x1 differs from the exact crossing by less than a count and
\* lies on the side of x1 that the sign of y2 - y1 gives
edge_toggles(pt, p1, p2) ==
    LET d == p2.y - p1.y
        n == (p2.x - p1.x) * (pt.y - p1.y)
        e == pt.x - p1.x
    IN  /\ (p1.y > pt.y) # (p2.y > pt.y)
        /\ IF d > 0 THEN e * d < n \/ (e * d = n /\ e < 0)
                    ELSE e * d > n \/ (e * d = n /\ e > 0)

point_in_polygon(pt, polygon) ==
    Cardinality({i \in 1..Len(polygon) :
                    edge_toggles(pt, polygon[i], polygon[(i % Len(polygon)) + 1])}) % 2 = 1

\* lines 139-143: the first polygon that holds pt, <<>> for None
RECURSIVE inside_poly(_, _, _)
inside_poly(pt, polys, i) ==
    IF i > Len(polys) THEN <<>>
    ELSE IF point_in_polygon(pt, polys[i]) THEN polys[i]
    ELSE inside_poly(pt, polys, i + 1)

\* the key of rows.sort: mileage_m, None last
sort_key(r) == IF r.mileage_m # None THEN r.mileage_m ELSE Inf

\* list.sort is stable: r goes behind the rows whose key is not greater
RECURSIVE insert_sorted(_, _)
insert_sorted(sorted, r) ==
    IF sorted = <<>> THEN <<r>>
    ELSE IF sort_key(sorted[Len(sorted)]) <= sort_key(r) THEN Append(sorted, r)
    ELSE Append(insert_sorted(SubSeq(sorted, 1, Len(sorted) - 1), r),
                sorted[Len(sorted)])

RECURSIVE sort_rows(_)
sort_rows(rs) ==
    IF rs = <<>> THEN <<>>
    ELSE insert_sorted(sort_rows(SubSeq(rs, 1, Len(rs) - 1)), rs[Len(rs)])

-----------------------------------------------------------------------------
(* Inputs of the densify specification *)

DensifyLattice ==
    {Vec2(x * SCALE, y * SCALE) : x \in 0..DensifyGridX, y \in 0..DensifyGridY}

Rectilinear(pts) ==
    \A i \in 1..(Len(pts) - 1) : pts[i].x = pts[i + 1].x \/ pts[i].y = pts[i + 1].y

DensifyInputs ==
    UNION {{p \in [1..n -> DensifyLattice] : Rectilinear(p)} : n \in 0..MaxDensifyVerts}

MaxLenInputs == {l * SCALE : l \in 1..MaxLenTried} \cup {MAX_SEG_LEN}

DensifyIdle == points = <<>> /\ max_len = 0 /\ dense = <<>>

AngleIdle == theta = 0 /\ angle_str = <<>>

PolygonIdle == poly = <<>> /\ area = None /\ centroid = NoneVec

PointIdle == items = <<>> /\ routed = <<>> /\ rows = <<>> /\ polygons = <<>>

RouteIdle ==
    script = "" /\ rail_data = <<>> /\ table = <<>> /\ msp = <<>> /\ log = <<>>

CurveIdle ==
    /\ vecs = <<>> /\ cum = <<>> /\ offset = 0 /\ query = NoneVec /\ info = <<>>
    /\ mileage = None /\ cm = <<>> /\ target = 0 /\ located = <<>>
    /\ relocated = <<>> /\ t_rail = NoneVec

InitDensify ==
    /\ pc = "densify"
    /\ points \in DensifyInputs
    /\ max_len \in MaxLenInputs
    /\ dense = <<>>
    /\ CurveIdle /\ AngleIdle /\ PolygonIdle /\ RouteIdle /\ PointIdle

\* dense = densify(points, max_len) of rail_power.py; the IndexError of an
\* empty list leaves the function and nothing is returned
CallDensify ==
    /\ pc = "densify"
    /\ IF points = <<>>
       THEN pc' = "IndexError" /\ dense' = dense
       ELSE pc' = "densified" /\ dense' = densify(points, max_len)
    /\ UNCHANGED <<points, max_len, exceptDensify>>

\* dense = densify(points, max_len) of mileage_connect.py and rail_power_draw.py
CallDensifyConnect ==
    /\ pc = "densify"
    /\ IF points = <<>>
       THEN pc' = "IndexError" /\ dense' = dense
       ELSE pc' = "densified_connect" /\ dense' = densify_connect(points, max_len)
    /\ UNCHANGED <<points, max_len, exceptDensify>>

NextDensify ==
    \/ CallDensify
    \/ CallDensifyConnect

SpecDensify == InitDensify /\ [][NextDensify]_vars

-----------------------------------------------------------------------------
(* One reference curve: index it and project points onto it                *)

\* RAIL_LAYERS: the mileage offsets of dl1..dl6, in drawing units
RAIL_LAYERS == <<56700, 74900, 100000, 125000, 156000, 163300>>

ProjectLattice ==
    {Vec2(x * SCALE, y * SCALE) : x \in 0..ProjectGridX, y \in 0..ProjectGridY}

\* polylines as densify returns them: at least one vertex
ProjectInputs ==
    UNION {{p \in [1..n -> ProjectLattice] : Rectilinear(p)} : n \in 1..MaxProjectVerts}

\* the points projected: the vertices a curve may have
QueryPoints == ProjectLattice

InitProject ==
    /\ pc = "index"
    /\ vecs \in ProjectInputs
    /\ offset = RAIL_LAYERS[1] * SCALE
    /\ cum = <<>> /\ query = NoneVec /\ info = <<>> /\ mileage = None
    /\ cm = <<>> /\ target = 0 /\ located = <<>> /\ relocated = <<>>
    /\ t_rail = NoneVec
    /\ DensifyIdle /\ AngleIdle /\ PolygonIdle /\ RouteIdle /\ PointIdle

\* cum = calc_cum_len(vecs)
CallCalcCumLen ==
    /\ pc = "index"
    /\ cum' = calc_cum_len(vecs)
    /\ pc' = "indexed"
    /\ UNCHANGED <<vecs, offset, query, info, mileage, cm, target, located, relocated,
                   t_rail, exceptCurve>>

\* the three projectors called with the same point
CallProject ==
    /\ pc = "indexed"
    /\ \E point \in QueryPoints :
          /\ query' = point
          /\ info' = closest_point_info(vecs, cum, point, offset)
          /\ mileage' = calc_mileage(vecs, cum, point, offset)
          /\ cm' = closest_mileage(vecs, cum, point, offset)
    /\ pc' = "projected"
    /\ UNCHANGED <<vecs, cum, offset, target, located, relocated, t_rail, exceptCurve>>

NextProject ==
    \/ CallCalcCumLen
    \/ CallProject

SpecProject == InitProject /\ [][NextProject]_vars

-----------------------------------------------------------------------------
(* One reference curve: index it, locate stations, project them back       *)

LocateLattice ==
    {Vec2(x * SCALE, y * SCALE) : x \in 0..LocateGridX, y \in 0..LocateGridY}

LocateInputs ==
    UNION {{p \in [1..n -> LocateLattice] : Rectilinear(p)} : n \in 1..MaxLocateVerts}

\* the stations located: every half unit from before the start to past the end
HalfUnit == SCALE \div 2
Targets(c) == {k * HalfUnit : k \in -1..(c[Len(c)] \div HalfUnit + 1)}

InitLocate ==
    /\ pc = "index"
    /\ vecs \in LocateInputs
    /\ offset = 0
    /\ cum = <<>> /\ query = NoneVec /\ info = <<>> /\ mileage = None
    /\ cm = <<>> /\ target = 0 /\ located = <<>> /\ relocated = <<>>
    /\ t_rail = NoneVec
    /\ DensifyIdle /\ AngleIdle /\ PolygonIdle /\ RouteIdle /\ PointIdle

\* located = get_point_and_tangent(vecs, cum, target_len)
CallLocate ==
    /\ pc = "indexed"
    /\ \E target_len \in Targets(cum) :
          /\ target' = target_len
          /\ located' = get_point_and_tangent(vecs, cum, target_len)
    /\ pc' = "located"
    /\ UNCHANGED <<vecs, cum, offset, query, info, mileage, cm, relocated, t_rail, exceptCurve>>

\* the located point projected back onto the curve, with offset 0
ProjectLocated ==
    /\ pc = "located"
    /\ query' = located.pt
    /\ info' = closest_point_info(vecs, cum, located.pt, 0)
    /\ mileage' = calc_mileage(vecs, cum, located.pt, 0)
    /\ cm' = closest_mileage(vecs, cum, located.pt, 0)
    /\ pc' = "reprojected"
    /\ UNCHANGED <<vecs, cum, offset, target, located, relocated, t_rail, exceptCurve>>

\* the station of the projection located again
Relocate ==
    /\ pc = "reprojected"
    /\ info.len # None
    /\ relocated' = get_point_and_tangent(vecs, cum, info.len)
    /\ pc' = "relocated"
    /\ UNCHANGED <<vecs, cum, offset, query, info, mileage, cm, target, located,
                   t_rail, exceptCurve>>

NextLocate ==
    \/ CallCalcCumLen
    \/ CallLocate
    \/ ProjectLocated
    \/ Relocate

SpecLocate == InitLocate /\ [][NextLocate]_vars

-----------------------------------------------------------------------------
(* One polyline: the tangent at a point, rail_power.compute                *)

\* polylines as densify returns them from poly2d: at least one vertex,
\* consecutive duplicates kept
DirectionInputs == ProjectInputs

InitDirection ==
    /\ pc = "direction"
    /\ vecs \in DirectionInputs
    /\ offset = 0
    /\ cum = <<>> /\ query = NoneVec /\ info = <<>> /\ mileage = None
    /\ cm = <<>> /\ target = 0 /\ located = <<>> /\ relocated = <<>>
    /\ t_rail = NoneVec
    /\ DensifyIdle /\ AngleIdle /\ PolygonIdle /\ RouteIdle /\ PointIdle

\* t_rail = segment_direction(rail_pts, ip)
CallSegmentDirection ==
    /\ pc = "direction"
    /\ \E ip \in QueryPoints :
          /\ query' = ip
          /\ IF segment_direction(vecs, ip) = ZeroDivisionError
             THEN pc' = "ZeroDivisionError" /\ t_rail' = t_rail
             ELSE pc' = "directed" /\ t_rail' = segment_direction(vecs, ip)
    /\ UNCHANGED <<vecs, cum, offset, info, mileage, cm, target, located, relocated,
                   exceptCurve>>

NextDirection == CallSegmentDirection

SpecDirection == InitDirection /\ [][NextDirection]_vars

-----------------------------------------------------------------------------
(* The right-side angle of two tangents *)

InitAngle ==
    /\ pc = "angle"
    /\ theta \in ThetaValues
    /\ angle_str = <<>>
    /\ DensifyIdle /\ CurveIdle /\ PolygonIdle /\ RouteIdle /\ PointIdle

CallAngleRight ==
    /\ pc = "angle"
    /\ angle_str' \in angle_right(theta)
    /\ pc' = "angled"
    /\ UNCHANGED <<theta, exceptAngle>>

NextAngle == CallAngleRight

SpecAngle == InitAngle /\ [][NextAngle]_vars

-----------------------------------------------------------------------------
(* Area and centroid of one demolition polygon *)

PolygonLattice ==
    {Vec2(x * SCALE, y * SCALE) : x \in 0..PolygonGridX, y \in 0..PolygonGridY}

\* load_polylines keeps vertex lists of three points or more, closed by a copy
\* of the first vertex or not
PolygonInputs ==
    UNION {[1..n -> PolygonLattice] : n \in 3..MaxPolygonVerts}

InitPolygon ==
    /\ pc = "polygon"
    /\ poly \in PolygonInputs
    /\ area = None
    /\ centroid = NoneVec
    /\ DensifyIdle /\ CurveIdle /\ AngleIdle /\ RouteIdle /\ PointIdle

CallPolygonAreaCentroid ==
    /\ pc = "polygon"
    /\ area' = polygon_area_centroid(poly).area
    /\ centroid' = polygon_area_centroid(poly).centroid
    /\ pc' = "measured"
    /\ UNCHANGED <<poly, exceptPolygon>>

NextPolygon == CallPolygonAreaCentroid

SpecPolygon == InitPolygon /\ [][NextPolygon]_vars

-----------------------------------------------------------------------------
(* Routing the rows of a table to the rail layers by mileage.  The offsets  *)
(* configured in RAIL_LAYERS lie 7 km and more apart, further than a curve  *)
(* of a few vertices reaches; the layers keep their order here and their    *)
(* offsets are brought LayerSpacing units apart, so that the ranges of two  *)
(* layers can overlap and can leave a gap.                                  *)

RailOffset(k) == k * LayerSpacing * SCALE

\* the polyline found on layer k: one segment of one unit ("short"), or one
\* that turns a corner and reaches one unit past the offset of layer k + 1
LayerPolyline(k, kind) ==
    LET o == Vec2(k * (LayerSpacing + 2) * SCALE, 0)
    IN  IF kind = "short"
        THEN <<o, VAdd(o, Vec2(SCALE, 0))>>
        ELSE <<o, VAdd(o, Vec2(SCALE, 0)), VAdd(o, Vec2(SCALE, LayerSpacing * SCALE))>>

LayerChoices == [1..MaxLayers -> {"none", "short", "long"}]

\* the loop over RAIL_LAYERS.items() that fills rail_data, from layer k on
RECURSIVE rail_data_of(_, _)
rail_data_of(choice, k) ==
    IF k > MaxLayers THEN <<>>
    ELSE IF choice[k] = "none" THEN rail_data_of(choice, k + 1)
    ELSE LET dense_pts == densify_connect(LayerPolyline(k, choice[k]), MAX_SEG_LEN)
         IN  <<[pts |-> dense_pts,
                cum |-> calc_cum_len(dense_pts),
                offset |-> RailOffset(k)]>> \o rail_data_of(choice, k + 1)

\* the mileages of a table: the offset of the first layer, one unit past the
\* offset of every layer (the end of a short curve, inside a long one, the
\* end of the long curve of the layer before), and a blank cell (nan)
Mileages ==
    {NaN, RailOffset(1)} \cup {RailOffset(k) + SCALE : k \in 1..(MaxLayers + 1)}

\* the angle cells of a table, as str() gives them
AngleTexts ==
    {<<"1", "2", "°", "3", "0", "'">>, <<"4", "5", ".", "5">>, <<"x">>}

InitRoute ==
    /\ pc = "rows"
    /\ script \in {"mileage_connect", "rail_power_draw"}
    /\ rail_data \in {rail_data_of(choice, 1) : choice \in LayerChoices}
    /\ table = <<>>
    /\ msp = <<>>
    /\ log = <<>>
    /\ DensifyIdle /\ CurveIdle /\ AngleIdle /\ PolygonIdle /\ PointIdle

\* one pass of "for M in mileages" of mileage_connect.main
ConnectRow ==
    /\ pc = "rows"
    /\ script = "mileage_connect"
    /\ Len(table) < MaxRows
    /\ \E M \in Mileages :
        LET row == Len(table) + 1
            k == route_loop(rail_data, M, 1)
        IN  /\ table' = Append(table, [M |-> M])
            /\ IF k > 0
               THEN /\ msp' = Append(msp, [row |-> row,
                                           pt |-> locate_on(rail_data[k], M).pt])
                    /\ log' = log
               ELSE /\ msp' = msp
                    /\ log' = Append(log, [row |-> row, msg |-> "uncovered"])
    /\ UNCHANGED <<pc, script, rail_data, exceptRoute>>

\* one pass of "for M, ang_str in zip(mileage_list, angle_list)" of
\* rail_power_draw.main; the line drawn runs through pt along
\* rotate_vec(t_rail, ang_deg)
DrawRow ==
    /\ pc = "rows"
    /\ script = "rail_power_draw"
    /\ Len(table) < MaxRows
    /\ \E M \in Mileages, ang_str \in AngleTexts :
        LET row == Len(table) + 1
            ang_deg == parse_angle(ang_str)
            k == route_loop(rail_data, M, 1)
        IN  /\ table' = Append(table, [M |-> M, ang_str |-> ang_str])
            /\ IF ang_deg = None
               THEN /\ msp' = msp
                    /\ log' = Append(log, [row |-> row, msg |-> "angle"])
               ELSE IF k > 0
               THEN /\ msp' = Append(msp, [row |-> row,
                                           pt |-> locate_on(rail_data[k], M).pt,
                                           t_rail |-> locate_on(rail_data[k], M).t,
                                           ang_deg |-> ang_deg])
                    /\ log' = log
               ELSE /\ msp' = msp
                    /\ log' = Append(log, [row |-> row, msg |-> "uncovered"])
    /\ UNCHANGED <<pc, script, rail_data, exceptRoute>>

\* the table is at its end: doc.saveas(out_path)
Save ==
    /\ pc = "rows"
    /\ pc' = "saved"
    /\ UNCHANGED <<routeVars, exceptRoute>>

NextRoute ==
    \/ ConnectRow
    \/ DrawRow
    \/ Save

SpecRoute == InitRoute /\ [][NextRoute]_vars

-----------------------------------------------------------------------------
(* Routing polygons and texts to the nearest rail layer.  The curve of      *)
(* layer k runs along y = 2k, so that a point can lie as far from one layer *)
(* as from the next; the offsets are those of the routing by mileage.       *)

LineWidth == (PointGridX + 2) * SCALE

\* the polyline found on layer k: a straight line, or two vertices at one
\* place (no segment is longer than TOLERANCE, the projector has no result)
PointPolyline(k, kind) ==
    IF kind = "line"
    THEN <<Vec2(0, 2 * k * SCALE), Vec2(LineWidth, 2 * k * SCALE)>>
    ELSE <<Vec2(0, 2 * k * SCALE), Vec2(0, 2 * k * SCALE)>>

PointChoices == [1..MaxLayers -> {"none", "line", "point"}]

\* load_rails, from layer k on
RECURSIVE load_rails(_, _)
load_rails(choice, k) ==
    IF k > MaxLayers THEN <<>>
    ELSE IF choice[k] = "none" THEN load_rails(choice, k + 1)
    ELSE LET pts == densify(PointPolyline(k, choice[k]), MAX_SEG_LEN)
         IN  <<[pts |-> pts, cum |-> calc_cum_len(pts), offset |-> RailOffset(k)]>>
             \o load_rails(choice, k + 1)

QueryLattice ==
    {Vec2(x * SCALE, y * SCALE) : x \in 1..(PointGridX + 1), y \in 1..(2 * MaxLayers + 1)}

\* a square of side 2 around c, and a polygon whose vertices all lie at c
Square(c) ==
    <<VAdd(c, Vec2(-SCALE, -SCALE)), VAdd(c, Vec2(SCALE, -SCALE)),
      VAdd(c, Vec2(SCALE, SCALE)), VAdd(c, Vec2(-SCALE, SCALE))>>

Spot(c) == <<c, c, c>>

\* the closed polylines of the demolition layer
DemolitionPolygons ==
    {Square(c) : c \in QueryLattice} \cup {Spot(c) : c \in QueryLattice}

\* load_room: the closed polylines, none or one
PolygonLists ==
    {<<>>} \cup {<<Square(c)>> : c \in {q \in QueryLattice : q.x = SCALE}}

InitPoint ==
    /\ pc = "items"
    /\ script \in {"demolition_polyline_info", "extract_closed_polyline_text"}
    /\ rail_data \in {load_rails(choice, 1) : choice \in PointChoices} \ {<<>>}
    /\ polygons \in IF script = "extract_closed_polyline_text"
                    THEN PolygonLists ELSE {<<>>}
    /\ items = <<>>
    /\ routed = <<>>
    /\ rows = <<>>
    /\ table = <<>> /\ msp = <<>> /\ log = <<>>
    /\ DensifyIdle /\ CurveIdle /\ AngleIdle /\ PolygonIdle

\* one pass of "for poly in polys" of demolition_polyline_info.main
ProcessPolygon ==
    /\ pc = "items"
    /\ script = "demolition_polyline_info"
    /\ Len(items) < MaxItems
    /\ \E p \in DemolitionPolygons :
        LET ac == polygon_area_centroid(p)
            acc == demolition_route_loop(rail_data, ac.centroid, 1,
                       [best_mileage |-> None, best_dist |-> Inf,
                        best_dir |-> NoneVec, proj_pt |-> NoneVec])
            min_vertex_dist == min_vertex_loop(p, rail_data, 1, Inf)
        IN  /\ items' = Append(items, p)
            /\ routed' = [point |-> ac.centroid,
                          best_mileage |-> acc.best_mileage,
                          best_dist |-> acc.best_dist]
            /\ IF min_vertex_dist = TypeError
               THEN /\ pc' = "TypeError"
                    /\ rows' = rows
               ELSE /\ pc' = pc
                    /\ rows' = Append(rows,
                           [item |-> Len(items) + 1,
                            mileage_m |-> IF acc.best_mileage # None
                                          THEN round3(acc.best_mileage, SCALE)
                                          ELSE None,
                            side |-> side_of(acc, ac.centroid),
                            min_vertex_dist |-> IF min_vertex_dist # Inf
                                                THEN round3(min_vertex_dist, SCALE)
                                                ELSE None,
                            area |-> round3(ac.area, SCALE * SCALE)])
    /\ UNCHANGED <<script, rail_data, polygons, exceptPoint>>

\* one pass of "for txt in texts" of extract_closed_polyline_text.main
ProcessText ==
    /\ pc = "items"
    /\ script = "extract_closed_polyline_text"
    /\ Len(items) < MaxItems
    /\ \E pt \in QueryLattice :
        LET inside == inside_poly(pt, polygons, 1)
            acc == extract_route_loop(rail_data, pt, 1,
                       [best_mileage |-> None, best_dist |-> Inf])
        IN  /\ items' = Append(items, pt)
            /\ IF inside = <<>>
               THEN UNCHANGED <<routed, rows>>
               ELSE /\ routed' = [point |-> pt,
                                  best_mileage |-> acc.best_mileage,
                                  best_dist |-> acc.best_dist]
                    /\ IF acc.best_mileage = None
                       THEN rows' = rows
                       ELSE rows' = Append(rows,
                                [item |-> Len(items) + 1,
                                 polyline |-> inside,
                                 mileage_m |-> round3(acc.best_mileage, SCALE)])
    /\ UNCHANGED <<pc, script, rail_data, polygons, exceptPoint>>

\* after the loop: demolition_polyline_info.main sorts the rows by mileage,
\* both write the CSV file
WriteCsv ==
    /\ pc = "items"
    /\ pc' = "written"
    /\ rows' = IF script = "demolition_polyline_info" THEN sort_rows(rows) ELSE rows
    /\ UNCHANGED <<script, rail_data, polygons, items, routed, exceptPoint>>

NextPoint ==
    \/ ProcessPolygon
    \/ ProcessText
    \/ WriteCsv

SpecPoint == InitPoint /\ [][NextPoint]_vars

-----------------------------------------------------------------------------
(* C1 *)

SegmentsWithin(seq, bound) ==
    \A i \in 1..(Len(seq) - 1) : Distance(seq[i], seq[i + 1]) <= bound

\* C1: for a polyline with at least 2 vertices and max_len > 0, the sequence
\* densify returns has no segment longer than max_len and keeps the first
\* and the last vertex.
C1_DensifyBounded ==
    (pc = "densified" /\ Len(points) >= 2) =>
        /\ SegmentsWithin(dense, max_len)
        /\ dense[1] = points[1]
        /\ dense[Len(dense)] = points[Len(points)]

-----------------------------------------------------------------------------
(* Geometry the claims are stated with, independent of the projectors      *)

Min(S) == CHOOSE m \in S : \A n \in S : m <= n

\* p lies on the segment a -> b
OnSegment(p, a, b) ==
    /\ (b.x - a.x) * (p.y - a.y) = (b.y - a.y) * (p.x - a.x)
    /\ Dot(VSub(p, a), VSub(b, a)) >= 0
    /\ Dot(VSub(p, b), VSub(a, b)) >= 0

\* the arc lengths at which the polyline v passes through p
PassageLens(v, c, p) ==
    {c[j] + Distance(v[j], p) :
        j \in {k \in 1..(Len(v) - 1) : v[k] # v[k + 1] /\ OnSegment(p, v[k], v[k + 1])}}

\* v has a segment between two different vertices
HasSegment(v) == \E j \in 1..(Len(v) - 1) : v[j] # v[j + 1]

\* the indices of the vertices of v equal to p
VertexIndices(v, p) == {i \in 1..Len(v) : v[i] = p}

-----------------------------------------------------------------------------
(* C2 *)

\* the three projectors report distance d and mileage m
Projected(m, d) ==
    /\ info.len = m /\ info.dist = d
    /\ cm.len = m /\ cm.dist = d
    /\ mileage = m

\* C2 as claimed: projecting vertex i of a polyline with at least 2 vertices
\* gives perpendicular distance 0 and arc length table[i] + offset.
C2_VertexProjectsToOwnArcLength ==
    (pc = "projected" /\ Len(vecs) >= 2) =>
        \A i \in VertexIndices(vecs, query) : Projected(cum[i] + offset, 0)

\* C2 as amended: on a polyline with a non-degenerate segment, projecting
\* vertex i gives perpendicular distance 0 and the arc length of the first
\* passage of the polyline through that vertex, plus offset: table[i] + offset
\* when no earlier passage exists, less than that otherwise; a polyline with
\* no non-degenerate segment gives the absent result.
C2_VertexProjectsToFirstPassage ==
    (pc = "projected" /\ Len(vecs) >= 2) =>
        \A i \in VertexIndices(vecs, query) :
            IF HasSegment(vecs)
            THEN LET first == Min(PassageLens(vecs, cum, query))
                 IN  /\ Projected(first + offset, 0)
                     /\ first <= cum[i]
                     /\ (\A l \in PassageLens(vecs, cum, query) : l >= cum[i])
                            => first = cum[i]
            ELSE Projected(None, None)

\* C2 witness: the last vertex of a closed polyline (out, on, and back to the
\* start) is projected to the start of the polyline, with a non-zero offset.
C2_Witness ==
    /\ pc = "projected"
    /\ Len(vecs) = 4
    /\ vecs[1] = vecs[4]
    /\ Cardinality({vecs[i] : i \in 1..3}) = 3
    /\ query = vecs[4]
    /\ offset > 0
    /\ info.len = offset /\ info.dist = 0
    /\ cum[4] = 4 * SCALE

-----------------------------------------------------------------------------
(* C3 *)

\* C3 as claimed: for 0 < s < table[last], locating s, projecting the point
\* with offset 0 and locating the projection's arc length gives the same
\* point and the same tangent.
C3_LocateProjectLocate ==
    (pc = "relocated" /\ 0 < target /\ target < cum[Len(cum)]) =>
        /\ relocated.pt = located.pt
        /\ relocated.t = located.t

\* C3 as amended: the same point is returned, at an arc length not beyond s,
\* and the same tangent whenever the polyline does not pass through the
\* point before arc length s.
C3_LocateProjectLocatePoint ==
    (pc = "relocated" /\ 0 < target /\ target < cum[Len(cum)]) =>
        /\ relocated.pt = located.pt
        /\ info.len <= target
        /\ (\A l \in PassageLens(vecs, cum, located.pt) : l >= target)
               => relocated.t = located.t

\* C3 witness: a station inside the second segment of a polyline that turns
\* a corner was located, projected and located again.
C3_Witness ==
    /\ pc = "relocated"
    /\ Len(vecs) = 3
    /\ vecs[1].x # vecs[2].x /\ vecs[2].y # vecs[3].y
    /\ cum[2] < target /\ target < cum[3]
    /\ info.len = target
    /\ relocated = located

-----------------------------------------------------------------------------
(* C4 *)

\* C4: calc_cum_len returns one entry per vertex, the first 0, each next
\* entry the previous one plus the distance between the two vertices, so the
\* table never decreases; it leaves the point sequence as it was.
C4_CumLenTable ==
    /\ [](pc # "index" =>
            /\ Len(cum) = Len(vecs)
            /\ cum[1] = 0
            /\ \A i \in 2..Len(vecs) :
                  /\ cum[i] = cum[i - 1] + Distance(vecs[i - 1], vecs[i])
                  /\ cum[i] >= cum[i - 1])
    /\ [][pc = "index" => vecs' = vecs]_vars

\* C4 witness: a table of four entries that grows twice and stays once.
C4_Witness ==
    /\ pc = "indexed"
    /\ Len(cum) = 4 /\ Len(vecs) = 4
    /\ cum[2] > cum[1] /\ cum[3] = cum[2] /\ cum[4] > cum[3]

-----------------------------------------------------------------------------
(* C9 *)

\* the first segment of v between two different vertices
FirstSegment(v) == Min({j \in 1..(Len(v) - 1) : v[j] # v[j + 1]})

\* C9 as claimed: on a polyline with a non-degenerate segment, a target at or
\* below 0 gives the first vertex and the unit tangent of the first
\* non-degenerate segment; a target at or beyond table[last] gives the last
\* vertex and the unit tangent of the final segment.
C9_EndClamping ==
    (pc = "located" /\ HasSegment(vecs)) =>
        /\ target <= 0 =>
              /\ located.pt = vecs[1]
              /\ located.t = Normalize(VSub(vecs[FirstSegment(vecs) + 1],
                                            vecs[FirstSegment(vecs)]))
        /\ target >= cum[Len(cum)] =>
              /\ located.pt = vecs[Len(vecs)]
              /\ vecs[Len(vecs)] # vecs[Len(vecs) - 1] =>
                    located.t = Normalize(VSub(vecs[Len(vecs)], vecs[Len(vecs) - 1]))

-----------------------------------------------------------------------------
(* C7, C8 *)

DegreeSign(str) == CHOOSE i \in 1..Len(str) : str[i] = "°"

\* the degree part and the minute part read back from "D°M'"
DegreePart(str) == StrToInt(SubSeq(str, 1, DegreeSign(str) - 1))
MinutePart(str) == StrToInt(SubSeq(str, DegreeSign(str) + 1, Len(str) - 1))

\* the angle a string is the report of: theta, brought into [0, 180] by the
\* bearing convention of line 106
Bearing(th) == IF th >= 0 THEN th ELSE 180 * ANGLE_UNIT + th

C8_MinuteCarry ==
    pc = "angled" =>
        /\ MinutePart(angle_str) \in 0..59
        /\ 2 * Abs((DegreePart(angle_str) * 60 + MinutePart(angle_str)) * ANGLE_UNIT
                   - Bearing(theta) * 60) <= ANGLE_UNIT
        /\ angle_str = IntToStr(DegreePart(angle_str)) \o <<"°">>
                       \o IntToStr(MinutePart(angle_str)) \o <<"'">>
        /\ theta = 89999 => angle_str = <<"9", "0", "°", "0", "'">>

\* 89.999 degrees has been reported, with the carry into the degree part
C8_Witness ==
    /\ pc = "angled"
    /\ theta = 89999
    /\ angle_str = <<"9", "0", "°", "0", "'">>

-----------------------------------------------------------------------------
(* C10 *)

\* the vertex list without the copy of the first vertex that closes it
Ring(pts) ==
    IF pts[1] = pts[Len(pts)] THEN SubSeq(pts, 1, Len(pts) - 1) ELSE pts

Range(seq) == {seq[i] : i \in 1..Len(seq)}

SumX(S) == sum_points(CHOOSE seq \in [1..Cardinality(S) -> S] : Range(seq) = S).x
SumY(S) == sum_points(CHOOSE seq \in [1..Cardinality(S) -> S] : Range(seq) = S).y

Degenerate(pts) ==
    LtTolSq(Abs(shoelace_loop(close_ring(pts), 1,
                              [area2 |-> 0, cx |-> 0, cy |-> 0]).area2))

\* c is total / n to the nearest count
IsMean(c, total, n) == 2 * Abs(c * n - total) <= n

\* C10 as stated: a polygon whose double area is below TOLERANCE gets area 0
\* and the mean of its distinct vertices as centroid, a vertex that occurs
\* several times being counted once.
C10_MeanOfDistinctVertices ==
    (pc = "measured" /\ Degenerate(poly)) =>
        /\ area = 0
        /\ IsMean(centroid.x, SumX(Range(poly)), Cardinality(Range(poly)))
        /\ IsMean(centroid.y, SumY(Range(poly)), Cardinality(Range(poly)))

\* C10, amended: a polygon whose double area is below TOLERANCE gets area 0
\* and, as centroid, the mean over its vertex list without the closing copy of
\* the first vertex, every other occurrence of a repeated vertex counted.
C10_MeanOfVertexList ==
    (pc = "measured" /\ Degenerate(poly)) =>
        /\ area = 0
        /\ IsMean(centroid.x, sum_points(Ring(poly)).x, Len(Ring(poly)))
        /\ IsMean(centroid.y, sum_points(Ring(poly)).y, Len(Ring(poly)))

\* a collinear polygon with a repeated vertex has been measured: the mean of
\* the list differs from the mean of the distinct vertices
C10_Witness ==
    /\ pc = "measured"
    /\ poly = <<Vec2(0, 0), Vec2(0, 0), Vec2(2 * SCALE, 0)>>
    /\ area = 0
    /\ centroid = Vec2((2 * SCALE) \div 3, 0)

-----------------------------------------------------------------------------
(* C5 *)

\* -TOLERANCE <= M - offset <= total_length + TOLERANCE
Covers(curve, M) ==
    /\ M # NaN
    /\ ~GtTol(-(M - curve.offset))
    /\ ~GtTol(M - curve.offset - curve.cum[Len(curve.cum)])

Covering(M) == {k \in 1..Len(rail_data) : Covers(rail_data[k], M)}

LinesOf(row) == {j \in 1..Len(msp) : msp[j].row = row}

WarningsOf(row) == {j \in 1..Len(log) : log[j].row = row /\ log[j].msg = "uncovered"}

Parseable(row) == script = "mileage_connect" \/ parse_angle(table[row].ang_str) # None

\* C5: for every mileage M of the table (with a parseable angle, where
\* applicable) exactly one line is drawn if some curve satisfies
\* -TOLERANCE <= M - offset <= total_length + TOLERANCE, and it lies on the
\* first such curve at M - offset; if no curve satisfies it, nothing is drawn
\* for M and one warning is issued; the loop is never aborted.
C5_RoutedToFirstCoveringCurve ==
    /\ pc \in {"rows", "saved"}
    /\ \A row \in 1..Len(table) :
        Parseable(row) =>
            LET M == table[row].M
            IN  IF Covering(M) # {}
                THEN /\ Cardinality(LinesOf(row)) = 1
                     /\ WarningsOf(row) = {}
                     /\ \A j \in LinesOf(row) :
                            msp[j].pt = locate_on(rail_data[Min(Covering(M))], M).pt
                ELSE /\ LinesOf(row) = {}
                     /\ Cardinality(WarningsOf(row)) = 1

-----------------------------------------------------------------------------
(* C6 *)

\* the projection result of the k-th curve for a point
ResultOf(k, point) ==
    IF script = "demolition_polyline_info"
    THEN LET res == closest_point_info(rail_data[k].pts, rail_data[k].cum, point,
                                       rail_data[k].offset)
         IN  [len |-> res.len, dist |-> res.dist]
    ELSE closest_mileage(rail_data[k].pts, rail_data[k].cum, point,
                         rail_data[k].offset)

WithResult(point) == {k \in 1..Len(rail_data) : ResultOf(k, point).len # None}

\* the earliest of the curves at the least distance
NearestCurve(point) ==
    CHOOSE k \in WithResult(point) :
        \A j \in WithResult(point) :
            \/ ResultOf(k, point).dist < ResultOf(j, point).dist
            \/ ResultOf(k, point).dist = ResultOf(j, point).dist /\ k <= j

ExpectedMileage(point) ==
    IF WithResult(point) = {} THEN None
    ELSE ResultOf(NearestCurve(point), point).len

QueryOf(item) ==
    IF script = "demolition_polyline_info"
    THEN polygon_area_centroid(items[item]).centroid
    ELSE items[item]

\* C6: the mileage the loop over the curves ends with, and the mileage of
\* every row written, is the projection result of the curve at the least
\* distance among the curves that have a result, the earliest of them on a
\* tie; curves without a result are skipped.
C6_NearestCurveEarliestOnTie ==
    /\ routed # <<>> => routed.best_mileage = ExpectedMileage(routed.point)
    /\ \A j \in 1..Len(rows) :
        rows[j].mileage_m =
            IF ExpectedMileage(QueryOf(rows[j].item)) = None THEN None
            ELSE round3(ExpectedMileage(QueryOf(rows[j].item)), SCALE)

\* a point as far from the first curve as from the second has been routed to
\* the first, and its row written
C6_Witness ==
    /\ Len(rail_data) = 2
    /\ routed # <<>>
    /\ WithResult(routed.point) = {1, 2}
    /\ ResultOf(1, routed.point).dist = ResultOf(2, routed.point).dist
    /\ ResultOf(1, routed.point).len # ResultOf(2, routed.point).len
    /\ routed.best_mileage = ResultOf(1, routed.point).len
    /\ Len(rows) = 1
    /\ rows[1].mileage_m = round3(ResultOf(1, routed.point).len, SCALE)

-----------------------------------------------------------------------------
(* C11 *)

Returned == pc \in {"densified", "densified_connect"}

\* C11: called on fewer than 2 points (the empty list, a single point),
\* densify fails with an error and returns no point sequence.
C11_RejectsFewerThanTwoPoints ==
    (pc # "densify" /\ Len(points) < 2) => (~Returned /\ dense = <<>>)

-----------------------------------------------------------------------------
(* C12 *)

\* the number of interior points the claim gives the segment a-b
Interior(a, b, L) ==
    IF Distance(a, b) > L THEN Distance(a, b) \div L ELSE 0

\* the index in the returned sequence at which the i-th input vertex stands
RECURSIVE VertexPos(_, _, _)
VertexPos(pts, L, i) ==
    IF i = 1
    THEN 1
    ELSE VertexPos(pts, L, i - 1) + 1 + Interior(pts[i - 1], pts[i], L)

-----------------------------------------------------------------------------
(* C13 *)

Reverse(seq) == [i \in 1..Len(seq) |-> seq[Len(seq) + 1 - i]]

Translate(seq, v) == [i \in 1..Len(seq) |-> VAdd(seq[i], v)]

\* the vectors the polygons are moved by: along each axis, and off the
\* lattice into the negative quadrant
Shifts == {Vec2(SCALE, 0), Vec2(0, SCALE), Vec2(-7, -5 * SCALE)}

\* the vertex list without the closing copy of its first vertex
Opened(pts) ==
    IF pts[1] = pts[Len(pts)] THEN SubSeq(pts, 1, Len(pts) - 1) ELSE pts

UnitSquare ==
    <<Vec2(0, 0), Vec2(SCALE, 0), Vec2(SCALE, SCALE), Vec2(0, SCALE)>>

-----------------------------------------------------------------------------
(* C14 *)

\* what the loop over the curves of demolition_polyline_info.main ends with
\* for the item of a row
AccOf(item) ==
    demolition_route_loop(rail_data, QueryOf(item), 1,
        [best_mileage |-> None, best_dist |-> Inf,
         best_dir |-> NoneVec, proj_pt |-> NoneVec])

Negated(v) == Vec2(-v.x, -v.y)

Opposite(side) ==
    IF side = "left" THEN "right"
    ELSE IF side = "right" THEN "left"
    ELSE side

\* tangents along the axes and the diagonals
Tangents == {Vec2(dx * SCALE, dy * SCALE) : dx \in -1..1, dy \in -1..1}

\* C14: with the tangent negated, the side computed from the cross product
\* of the tangent with query - reference turns from left to right and from
\* right to left, and an on-line result stays on-line: for the tangent, the
\* projected point and the centroid of every row written, and for every
\* other tangent at that reference point.
C14_SideAntisymmetric ==
    script = "demolition_polyline_info" =>
        \A j \in 1..Len(rows) :
            LET q == QueryOf(rows[j].item)
                acc == AccOf(rows[j].item)
            IN  /\ rows[j].side = side_of(acc, q)
                /\ rows[j].side \in {"left", "right", "on line"}
                /\ side_of([acc EXCEPT !.best_dir = Negated(acc.best_dir)], q)
                       = Opposite(rows[j].side)
                /\ \A t \in Tangents :
                       side_of([acc EXCEPT !.best_dir = Negated(t)], q)
                           = Opposite(side_of([acc EXCEPT !.best_dir = t], q))

\* a centroid left of its curve, right of the curve reversed
C14_Witness ==
    /\ script = "demolition_polyline_info"
    /\ Len(rows) = 1
    /\ rows[1].side = "left"
    /\ side_of([AccOf(rows[1].item) EXCEPT
                    !.best_dir = Negated(AccOf(rows[1].item).best_dir)],
               QueryOf(rows[1].item)) = "right"

-----------------------------------------------------------------------------
(* C15 *)

\* the curves of rail_data with a segment between two different vertices,
\* and those whose segments are all degenerate
Usable == {k \in 1..Len(rail_data) : HasSegment(rail_data[k].pts)}

AllDegenerate == (1..Len(rail_data)) \ Usable

\* the least distance from a vertex of poly to a usable curve
MinUsableDist(pts) ==
    Min({closest_point_info(rail_data[k].pts, rail_data[k].cum, pts[i],
                            rail_data[k].offset).dist :
            k \in Usable, i \in 1..Len(pts)})

\* C15: with a curve whose segments are all degenerate next to usable curves
\* in rail_data, demolition_polyline_info.main does not abort: the loop
\* completes for every polygon, a row is written for every polygon, and its
\* min_vertex_dist is the least distance over the usable curves only.
C15_DegenerateCurveSkipped ==
    (/\ script = "demolition_polyline_info"
     /\ AllDegenerate # {}
     /\ Usable # {}) =>
        /\ pc # "TypeError"
        /\ Len(rows) = Len(items)
        /\ \A j \in 1..Len(rows) :
               rows[j].min_vertex_dist =
                   round3(MinUsableDist(items[rows[j].item]), SCALE)

-----------------------------------------------------------------------------
(* C16 *)

\* the segments between two different vertices that contain p
Containing(v, p) ==
    {j \in 1..(Len(v) - 1) : v[j] # v[j + 1] /\ OnSegment(p, v[j], v[j + 1])}

\* the first of the vertices nearest to p, by squared distance
Nearest(v, p) ==
    Min({j \in 1..Len(v) :
            \A k \in 1..Len(v) :
                Dot(VSub(p, v[j]), VSub(p, v[j])) <= Dot(VSub(p, v[k]), VSub(p, v[k]))})

\* the segment next to the vertex j: the one it starts, the one before it
\* for the last vertex
Adjacent(v, j) == IF j < Len(v) THEN j ELSE j - 1

UnitAlong(v, j) == Normalize(VSub(v[j + 1], v[j]))

ExpectedDirection(v, p) ==
    IF Containing(v, p) # {} THEN UnitAlong(v, Min(Containing(v, p)))
    ELSE IF v[Adjacent(v, Nearest(v, p))] # v[Adjacent(v, Nearest(v, p)) + 1]
    THEN UnitAlong(v, Adjacent(v, Nearest(v, p)))
    ELSE UnitX

\* C16: for a polyline with at least 2 vertices, consecutive duplicates
\* allowed, and every point, segment_direction returns without raising, and
\* returns a unit vector: the direction of the first non-degenerate segment
\* that contains the point, otherwise that of the segment adjacent to the
\* nearest vertex, otherwise (1, 0).
C16_DirectionToleratesDuplicates ==
    (pc # "direction" /\ Len(vecs) >= 2 /\ query # NoneVec) =>
        /\ pc = "directed"
        /\ t_rail = ExpectedDirection(vecs, query)
        /\ Dot(t_rail, t_rail) = SCALE * SCALE

-----------------------------------------------------------------------------
(* C17 *)

\* the rows with an angle parse_angle accepts and a mileage some curve covers
Drawable == {row \in 1..Len(table) : Parseable(row) /\ Covering(table[row].M) # {}}

\* the annotation of a drawable row: on the first covering curve at
\* M - offset, with the tangent there and the angle parsed
AnnotationOf(row) ==
    LET M == table[row].M
        curve == rail_data[Min(Covering(M))]
    IN  [row |-> row,
         pt |-> locate_on(curve, M).pt,
         t_rail |-> locate_on(curve, M).t,
         ang_deg |-> parse_angle(table[row].ang_str)]

\* the annotations of the drawable rows among the first n, in table order
RECURSIVE AnnotationsUpTo(_)
AnnotationsUpTo(n) ==
    IF n = 0 THEN <<>>
    ELSE IF n \in Drawable THEN Append(AnnotationsUpTo(n - 1), AnnotationOf(n))
    ELSE AnnotationsUpTo(n - 1)

\* C17: in rail_power_draw.main a row whose angle text parse_angle rejects
\* adds no annotation and does not end the loop, the rows after it are
\* processed as they are without it, and the annotations drawn are those
\* of the rows with a parseable angle and a covered mileage, in table order.
C17_MalformedAngleRowsSkipped ==
    script = "rail_power_draw" =>
        /\ pc \in {"rows", "saved"}
        /\ \A row \in 1..Len(table) : ~Parseable(row) => LinesOf(row) = {}
        /\ msp = AnnotationsUpTo(Len(table))

=============================================================================
